---- MODULE Spec2Model ----
(***************************************************************************)
(* Model of deepseek_api.py: the two session facades AsyncDeepseekAPI and  *)
(* SyncDeepseekAPI, their login flow over a shared credential file, and    *)
(* get_models / send_message.                                              *)
(*                                                                         *)
(* Session 1 is an AsyncDeepseekAPI instance, session 2 a SyncDeepseekAPI  *)
(* instance; both live under the same home directory and therefore share   *)
(* one credential file.  A call is split into steps at the points where    *)
(* the code hands control to the network or the file system, so that the   *)
(* other session can run in between.                                       *)
(***************************************************************************)
EXTENDS Integers, Sequences, FiniteSets, TLC

\* ------------------------------------------------------------------------
\* Bounds
\* ------------------------------------------------------------------------
\* number of facade calls (login, get_models, send_message) started in a run
MaxOps == 2

\* ------------------------------------------------------------------------
\* Python values
\* ------------------------------------------------------------------------
\* Python's None; str(None) is "None", which is what an f-string prints
None == "None"

\* truth value of an Optional[str]: None and "" are falsy
Truthy(x) == x # None /\ x # ""

\* d[k] = v on a dict (a function from keys to values)
setitem(d, k, v) == [x \in (DOMAIN d) \cup {k} |-> IF x = k THEN v ELSE d[x]]

\* d.get(k): the value, or None when the key is missing
dict_get(d, k) == IF k \in DOMAIN d THEN d[k] ELSE None

\* the empty dict
EmptyDict == [x \in {} |-> None]

\* f"Bearer {x}"
Bearer(x) == "Bearer " \o x

\* f"session-id={x}"
SessionCookie(x) == "session-id=" \o x

\* ------------------------------------------------------------------------
\* JSON text: the credential file holds a sequence of tokens
\* ------------------------------------------------------------------------
Tok(t, s) == [t |-> t, s |-> s]
LBrace == Tok("{", "")
RBrace == Tok("}", "")
LBrack == Tok("[", "")
RBrack == Tok("]", "")
Colon == Tok(":", "")
Comma == Tok(",", "")
StrTok(s) == Tok("str", s)
NullTok == Tok("null", "")

\* a Python value as login stores it in self.credentials
PyDict(d) == [type |-> "dict", d |-> d]
PyList == [type |-> "list", d |-> EmptyDict]
PyUnset == [type |-> "unset", d |-> EmptyDict]

\* the insertion order of the dict literal of login
KeyOrder == <<"session_id", "auth_token", "cookie">>

ValueTok(v) == IF v = None THEN NullTok ELSE StrTok(v)

RECURSIVE DumpMembers(_, _)
DumpMembers(d, keys) ==
    IF keys = <<>> THEN <<>>
    ELSE LET k == Head(keys)
             rest == DumpMembers(d, Tail(keys))
         IN IF k \notin DOMAIN d THEN rest
            ELSE <<StrTok(k), Colon, ValueTok(d[k])>>
                 \o (IF rest = <<>> THEN <<>> ELSE <<Comma>> \o rest)

\* json.dumps losing the last member
json_dumps_short(d) ==
    <<LBrace>> \o DumpMembers(d, <<"session_id", "auth_token">>) \o <<RBrace>>

\* the keys of a set, one after the other
RECURSIVE KeysOf(_)
KeysOf(S) ==
    IF S = {} THEN <<>>
    ELSE LET k == CHOOSE x \in S : TRUE IN <<k>> \o KeysOf(S \ {k})

\* the order in which json.dumps meets the keys of d: the insertion order,
\* which for the record of login is that of its dict literal; a dict of
\* other keys has them in the order KeysOf gives
InsertionOrder(d) ==
    KeyOrder \o KeysOf(DOMAIN d \ {KeyOrder[i] : i \in DOMAIN KeyOrder})

\* json.dumps of a dict with string keys and string-or-None values: every
\* key is written
json_dumps(d) == <<LBrace>> \o DumpMembers(d, InsertionOrder(d)) \o <<RBrace>>

\* the tokens between the braces of an object text
Inner(text) == SubSeq(text, 2, Len(text) - 1)

\* number of members of a well-formed object text
NMembers(text) == (Len(Inner(text)) + 1) \div 4

\* the text is a JSON object: { "k": v, "k": v, ... }
IsObjectText(text) ==
    /\ Len(text) >= 2
    /\ text[1] = LBrace
    /\ text[Len(text)] = RBrace
    /\ LET inner == Inner(text)
           n == NMembers(text)
       IN \/ inner = <<>>
          \/ /\ (Len(inner) + 1) % 4 = 0
             /\ \A j \in 1..n :
                   /\ inner[4*j - 3].t = "str"
                   /\ inner[4*j - 2] = Colon
                   /\ inner[4*j - 1].t \in {"str", "null"}
                   /\ (j < n => inner[4*j] = Comma)

\* the text is the JSON array []
IsArrayText(text) == text = <<LBrack, RBrack>>

\* the dict an object text parses to; of a repeated key the last member wins
ObjectOf(text) ==
    LET inner == Inner(text)
        n == NMembers(text)
        keys == {inner[4*j - 3].s : j \in 1..n}
        last(k) == CHOOSE j \in 1..n :
                      /\ inner[4*j - 3].s = k
                      /\ \A i \in 1..n : inner[4*i - 3].s = k => i <= j
        val(tk) == IF tk.t = "null" THEN None ELSE tk.s
    IN [k \in keys |-> val(inner[4*last(k) - 1])]

\* json.loads: ok = FALSE stands for json.JSONDecodeError
json_loads(text) ==
    IF IsObjectText(text) THEN [ok |-> TRUE, value |-> PyDict(ObjectOf(text))]
    ELSE IF IsArrayText(text) THEN [ok |-> TRUE, value |-> PyList]
    ELSE [ok |-> FALSE, value |-> PyUnset]

\* ------------------------------------------------------------------------
\* Sessions, configuration and the remote service's answers
\* ------------------------------------------------------------------------
Sessions == {1, 2}
\* the facade class of each session
class == <<"Async", "Sync">>
\* task t runs the calls of session owner[t], one at a time: tasks 1 and 2
\* are the callers of the two sessions, task 3 is a second coroutine on the
\* Async session
Tasks == {1, 2, 3}
owner == <<1, 2, 1>>

\* constructor arguments: an API key given along with email and password, or
\* with neither; no API key (None or the empty string) with email and
\* password both given or one of them missing (None or the empty string)
Cfg(k, e, p) == [api_key |-> k, email |-> e, password |-> p]
Configs == {Cfg("k1", "e1", "pw"), Cfg("k1", None, None), Cfg("", "e1", "pw"),
            Cfg(None, "e1", ""), Cfg(None, None, "pw")}

\* the remote service issues session ids, and for each session id one auth
\* token, and for each auth token one cookie; cookies differ in length
SessionIds == {"s1", "s2"}
TokenFor(sid) == IF sid = "s1" THEN "t1" ELSE "t2"
CookieFor(tok) == IF tok = "t1" THEN "c1" ELSE "c2c2"

Replies == {"hi"}

base_url == "https://chat.deepseek.com"

\* the base header set every session starts from
get_headers == [x \in {"User-Agent"} |-> "Mozilla/5.0"]

\* credential files a run can start with: none, an empty file, broken JSON,
\* a JSON array, and objects holding all, some or none of the three fields
StaleValue == [k \in {"session_id", "auth_token", "cookie"} |->
                 IF k = "session_id" THEN "s0"
                 ELSE IF k = "auth_token" THEN "t0" ELSE "c0"]
Restrict(f, S) == [x \in S |-> f[x]]
NoFile == [exists |-> FALSE, text |-> <<>>]
FileOf(text) == [exists |-> TRUE, text |-> text]
InitTexts ==
    {<<>>, <<LBrace, StrTok("cookie"), Colon>>, <<LBrack, RBrack>>}
    \cup {json_dumps(Restrict(StaleValue, S)) :
             S \in {{"session_id", "auth_token", "cookie"},
                    {"session_id", "auth_token"}, {"cookie"}}}
InitFiles == {NoFile} \cup {FileOf(x) : x \in InitTexts}

\* ------------------------------------------------------------------------
\* The remote service (utils.get_session_id, get_auth_token, get_cookies,
\* raise_for_status) answers a request with a value or a non-success status
\* ------------------------------------------------------------------------
Answers(values) == {[ok |-> TRUE, v |-> x] : x \in values}
                   \cup {[ok |-> FALSE, v |-> None]}
\* in place of an answer: the connection to the service failed
Unreachable == [ok |-> FALSE, v |-> "unreachable"]

\* the helper raises on a non-success status and returns the value otherwise
get_session_id(a) == IF a.ok THEN "returned" ELSE "AuthError"
get_auth_token(a) == IF a.ok THEN "returned" ELSE "AuthError"
get_cookies(a) == IF a.ok THEN "returned" ELSE "AuthError"
raise_for_status(a) == IF a.ok THEN "returned" ELSE "RemoteError"

\* ------------------------------------------------------------------------
\* State
\* ------------------------------------------------------------------------
VARIABLES
    cfg,            \* per session: the constructor's api_key, email, password
    headers,        \* per session: self.headers
    chat_headers,   \* per session: self.chat_headers (the empty dict for None)
    chat_history,   \* per session: self.chat_history
    credentials,    \* per session: self.credentials
    session_id,     \* per session: self.session_id
    auth_token,     \* per session: self.auth_token
    cookie,         \* per session: self.cookie
    file,           \* the credential file ~/.deepseek_credentials.json
    pc,             \* per task: where the call in flight stands
    op,             \* per task: the call in flight, or the last one made
    result,         \* per task: how that call ended ("none" while in flight)
    trace,          \* per task: network and file accesses of that call
    request,        \* per task: headers and payload of its last HTTP request
    response,       \* per task: the body of the last chat reply received
    start,          \* per task: self and the file as they were at call time,
                    \* and the task's previous call with its outcome
    seen,           \* per task: what the call's read of the file found
    saved,          \* the record of the last completed save, while the file
                    \* still holds it, the task that last wrote the file, and
                    \* whether no other task wrote between its open and write
    nops,           \* number of calls started
    limit,          \* number of calls the run may start
    frames,         \* the frames the service streams in reply to a streamed send
    steps,          \* per task: number of steps its call has taken, of those
                    \* that both classes have
    answers,        \* per task: the service's answers to the call's requests
    transport,      \* per task: the response transport of its send_message
    gen,            \* per task: the lazy sequence its streamed send returned
    pending         \* per task: the return or exception of its call that is
                    \* on its way out of a with block

vars == <<cfg, headers, chat_headers, chat_history, credentials, session_id,
          auth_token, cookie, file, pc, op, result, trace, request, response,
          start, seen, saved, nops, limit, frames, steps, answers,
          transport, gen, pending>>

\* what a run is given and never changes
env == <<cfg, limit, frames>>
stream_vars == <<transport, gen, pending>>

self_vars == <<headers, chat_headers, chat_history, credentials, session_id,
               auth_token, cookie>>

LoginOp == [name |-> "login", message |-> "", model |-> "", stream |-> FALSE,
            kwargs |-> EmptyDict]
ModelsOp == [name |-> "get_models", message |-> "", model |-> "",
             stream |-> FALSE, kwargs |-> EmptyDict]
NoOp == [name |-> "none", message |-> "", model |-> "", stream |-> FALSE,
         kwargs |-> EmptyDict]
NoRequest == [method |-> "", url |-> "", headers |-> EmptyDict,
              json |-> EmptyDict]
NoResponse == [ok |-> FALSE, choices |-> <<>>]
NoSaved == [set |-> FALSE, d |-> EmptyDict, by |-> 0, alone |-> FALSE]
NoSeen == [read |-> FALSE, text |-> <<>>, saved |-> NoSaved]
NoStart == [headers |-> get_headers, chat_headers |-> EmptyDict,
            history |-> <<>>, credentials |-> PyUnset, file |-> NoFile,
            prev |-> [name |-> "none", result |-> "none"]]

NoGen == [state |-> "none", pos |-> 0, out |-> <<>>, late |-> FALSE]

\* __init__ of both classes
Constructed ==
    /\ cfg \in [Sessions -> Configs]
    /\ headers = [s \in Sessions |-> get_headers]
    /\ chat_headers = [s \in Sessions |-> EmptyDict]
    /\ chat_history = [s \in Sessions |-> <<>>]
    /\ credentials = [s \in Sessions |-> PyUnset]
    /\ session_id = [s \in Sessions |-> None]
    /\ auth_token = [s \in Sessions |-> None]
    /\ cookie = [s \in Sessions |-> None]
    /\ file \in InitFiles
    /\ pc = [t \in Tasks |-> "idle"]
    /\ op = [t \in Tasks |-> NoOp]
    /\ result = [t \in Tasks |-> "none"]
    /\ trace = [t \in Tasks |-> <<>>]
    /\ request = [t \in Tasks |-> NoRequest]
    /\ response = [t \in Tasks |-> NoResponse]
    /\ start = [t \in Tasks |-> NoStart]
    /\ seen = [t \in Tasks |-> NoSeen]
    /\ saved = NoSaved
    /\ nops = 0
    /\ steps = [t \in Tasks |-> 0]
    /\ answers = [t \in Tasks |-> <<>>]
    /\ transport = [t \in Tasks |-> "none"]
    /\ gen = [t \in Tasks |-> NoGen]
    /\ pending = [t \in Tasks |-> "none"]

\* sessions of both classes, any configuration, any starting file
Init ==
    /\ Constructed
    /\ limit = MaxOps
    /\ frames = <<>>

\* ------------------------------------------------------------------------
\* Steps shared by the calls
\* ------------------------------------------------------------------------
\* a call begins: it is counted and the caller's view of self is recorded
Begin(t, o) ==
    /\ pc[t] = "idle"
    /\ nops < limit
    /\ nops' = nops + 1
    /\ op' = [op EXCEPT ![t] = o]
    /\ start' = [start EXCEPT ![t] =
                   [headers |-> headers[owner[t]],
                    chat_headers |-> chat_headers[owner[t]],
                    history |-> chat_history[owner[t]],
                    credentials |-> credentials[owner[t]],
                    file |-> file,
                    prev |-> [name |-> op[t].name, result |-> result[t]]]]
    /\ seen' = [seen EXCEPT ![t] = NoSeen]
    /\ answers' = [answers EXCEPT ![t] = <<>>]

\* the awaits the Async class has behind those that are steps of the Sync
\* class too: the exit of the async with block of the load,
\* raise_for_status, response.json() and the exit of the block in
\* send_message, and the connection of a get_models call that will send
\* nothing
AsyncOnly == {"login_close", "send_status", "send_json", "send_close",
              "models_connect"}

\* the steps of a call that both classes have, counted
Counted(t) ==
    [steps EXCEPT ![t] = IF pc[t] = "idle" THEN 1
                         ELSE IF pc[t] \in AsyncOnly THEN @ ELSE @ + 1]

\* the call returns or raises with outcome r, having made the accesses tr
Finish(t, r, tr) ==
    /\ pc' = [pc EXCEPT ![t] = "idle"]
    /\ result' = [result EXCEPT ![t] = r]
    /\ trace' = [trace EXCEPT ![t] = tr]
    /\ steps' = Counted(t)

\* the call goes on to step p, having made the accesses tr
Goto(t, p, tr) ==
    /\ pc' = [pc EXCEPT ![t] = p]
    /\ result' = [result EXCEPT ![t] = "none"]
    /\ trace' = [trace EXCEPT ![t] = tr]
    /\ steps' = Counted(t)

\* accesses a call records
EvExists == <<"exists">>
EvRead == <<"read">>
EvOpenW == <<"open_w">>
EvWrite == <<"write">>
CallSessionId == <<"get_session_id">>
CallAuthToken(email, password, sid) == <<"get_auth_token", email, password, sid>>
CallCookies(tok) == <<"get_cookies", tok>>
CallHttp(method, url) == <<method, url>>
EvAnswer(v) == <<"answer", v>>

NetNames == {"get_session_id", "get_auth_token", "get_cookies", "GET", "POST"}
IsNet(e) == e[1] \in NetNames
IsFileWrite(e) == e[1] \in {"open_w", "write"}
IsFileRead(e) == e[1] = "read"
NetCalls(tr) == SelectSeq(tr, IsNet)
FileWrites(tr) == SelectSeq(tr, IsFileWrite)
FileReads(tr) == SelectSeq(tr, IsFileRead)
IsAnswer(e) == e[1] = "answer"
AnswersIn(tr) == SelectSeq(tr, IsAnswer)

\* the number of bytes of a token as json.dumps writes it (", " and ": "
\* for the separators, the quotes around a string)
RECURSIVE Pad(_)
Pad(n) == IF n = 0 THEN "" ELSE "?" \o Pad(n - 1)
Width(tok) ==
    IF tok.t \in {"{", "}", "[", "]"} THEN 1
    ELSE IF tok.t \in {":", ","} THEN 2
    ELSE IF tok.t = "str" THEN Len(tok.s) + 2
    ELSE IF tok.t = "null" THEN 4
    ELSE Len(tok.s)
RECURSIVE TextWidth(_)
TextWidth(text) ==
    IF text = <<>> THEN 0 ELSE Width(Head(text)) + TextWidth(Tail(text))

\* what is left of a text from byte `off` on: the tokens that begin at or
\* after it, behind the rest of a token it cuts through
RECURSIVE TailFrom(_, _)
TailFrom(text, off) ==
    IF text = <<>> THEN <<>>
    ELSE IF off <= 0 THEN text
    ELSE IF Width(Head(text)) <= off
    THEN TailFrom(Tail(text), off - Width(Head(text)))
    ELSE <<Tok("cut", Pad(Width(Head(text)) - off))>> \o Tail(text)

\* a write of `new` at offset 0 of a file holding `old`: the bytes of `old`
\* beyond the end of `new` stay
WriteAt0(old, new) == new \o TailFrom(old, TextWidth(new))

\* ------------------------------------------------------------------------
\* login: the pieces both classes compute
\* ------------------------------------------------------------------------
\* the key stored without the Bearer prefix
ApiKeyHeaders_raw(h, key) == setitem(h, "Authorization", key)

\* self.headers["Authorization"] = f"Bearer {self.api_key}"
ApiKeyHeaders(h, key) == setitem(h, "Authorization", Bearer(key))

\* the cached path made to mirror the fresh one: Authorization set as well
CachedHeaders_auth(h, cred) ==
    setitem(setitem(h, "Cookie", dict_get(cred, "cookie")),
            "Authorization", Bearer(dict_get(cred, "auth_token")))

\* self.headers["Cookie"] = self.credentials.get("cookie")
CachedHeaders(h, cred) == setitem(h, "Cookie", dict_get(cred, "cookie"))

\* an except clause that lets the decode error through
Caught_attr(exc) == exc = "AttributeError"

\* except (json.JSONDecodeError, Exception): every exception of the load
\* is caught
Caught(exc) == exc \in {"JSONDecodeError", "AttributeError"}

\* the check written with "and": only fails when both are missing
MissingCredentials_both(c) == ~Truthy(c.email) /\ ~Truthy(c.password)

\* if not self.email or not self.password
MissingCredentials(c) == ~Truthy(c.email) \/ ~Truthy(c.password)

\* self.headers["Cookie"] = f"session-id={self.session_id}"
SessionIdHeaders(h, sid) == setitem(h, "Cookie", SessionCookie(sid))

\* self.headers["Authorization"] = f"Bearer {self.auth_token}"
AuthTokenHeaders(h, tok) == setitem(h, "Authorization", Bearer(tok))

\* self.headers["Cookie"] = self.cookie
CookieHeaders(h, ck) == setitem(h, "Cookie", ck)

\* the dict literal with session id and auth token exchanged
MakeCredentials_swapped(sid, tok, ck) ==
    [k \in {"session_id", "auth_token", "cookie"} |->
        IF k = "session_id" THEN tok ELSE IF k = "auth_token" THEN sid ELSE ck]

\* the dict literal stored in self.credentials
MakeCredentials(sid, tok, ck) ==
    [k \in {"session_id", "auth_token", "cookie"} |->
        IF k = "session_id" THEN sid ELSE IF k = "auth_token" THEN tok ELSE ck]

\* json.dumps(self.credentials)
DumpCredentials(cred) ==
    IF cred.type = "dict" THEN json_dumps(cred.d) ELSE <<LBrack, RBrack>>

\* ------------------------------------------------------------------------
\* get_models and send_message: the pieces both classes compute
\* ------------------------------------------------------------------------
ModelsUrl == base_url \o "/api/models"
SendUrl == base_url \o "/api/chat/send"

\* self.headers.copy() plus Accept and Content-Type
ChatHeaders(h) ==
    setitem(setitem(h, "Accept", "text/event-stream"),
            "Content-Type", "application/json")

\* if not self.chat_headers: build them once from self.headers
EnsureChatHeaders(ch, h) == IF ch = EmptyDict THEN ChatHeaders(h) ELSE ch

\* a header value is None, which httpx does not take
HasNoneValue(h) == \E k \in DOMAIN h : h[k] = None

\* "deepseek_chat" if model == "deepseek-chat" else "deepseek_code"
model_class(model) ==
    IF model = "deepseek-chat" THEN "deepseek_chat" ELSE "deepseek_code"

\* {**a, **b}: the keys of b override those of a
Merge(a, b) ==
    [x \in (DOMAIN a) \cup (DOMAIN b) |-> IF x \in DOMAIN b THEN b[x] ELSE a[x]]

\* a chat turn
Turn(role, content) == [role |-> role, content |-> content]

\* the payload dict of send_message
Payload(message, model, stream, history, kwargs) ==
    Merge([message |-> message, stream |-> stream,
           model_class |-> model_class(model), chat_history |-> history],
          kwargs)

\* self.chat_history.append({"role": "user", "content": message})
AppendUser(history, message) == Append(history, Turn("user", message))

\* self.chat_history.append({"role": "assistant", "content": ...})
AppendAssistant(history, content) == Append(history, Turn("assistant", content))

\* response_json["choices"][0] exists
HasContent(body) == Len(body.choices) >= 1

\* response_json["choices"][0]["message"]["content"]
ContentOf(body) == body.choices[1]

\* replies of the chat endpoint: a non-success status, a completion, or a
\* success status whose body has no choices
ChatAnswers ==
    {[ok |-> FALSE, choices |-> <<>>], [ok |-> TRUE, choices |-> <<>>]}
    \cup {[ok |-> TRUE, choices |-> <<c>>] : c \in Replies}

\* calls of send_message: a message with the default model and no extra
\* option, plain or streamed, and another message with a different model
\* and one extra option
SendOp(m, md, st, kw) == [name |-> "send_message", message |-> m, model |-> md,
                          stream |-> st, kwargs |-> kw]
SendOps ==
    {SendOp("m1", "deepseek-chat", st, EmptyDict) : st \in BOOLEAN}
    \cup {SendOp("m2", "deepseek-coder", FALSE,
                 [x \in {"temperature"} |-> "0.7"])}


\* a streamed reply: its status line is all send_message looks at
StreamedAnswer == [ok |-> TRUE, choices |-> <<>>]

\* process_stream_response(response): calling it runs none of its body; the
\* lazy sequence it returns has read no frame and yielded nothing
process_stream_response == [NoGen EXCEPT !.state = "created"]

\* ------------------------------------------------------------------------
\* The streamed reply and its decoder
\* ------------------------------------------------------------------------
MaxFrames == 2

\* frames of a streamed reply, as token sequences: a JSON object carrying a
\* content fragment, an empty line, a keep-alive ping, JSON that is cut
\* off, and the termination marker
DataFrame(c) == json_dumps([k \in {"content"} |-> c])
EmptyFrame == <<>>
KeepAliveFrame == <<Tok("ping", "keep-alive")>>
MalformedFrame == <<LBrace, StrTok("content"), Colon>>
SentinelFrame == <<Tok("marker", "[DONE]")>>
FrameKinds == {DataFrame("a"), DataFrame("b"), EmptyFrame, KeepAliveFrame,
               MalformedFrame, SentinelFrame}
FrameSeqs == UNION {[1..n -> FrameKinds] : n \in 0..MaxFrames}

\* the decoder reads on from frame number pos: empty frames, pings and
\* frames that do not parse are passed over; the marker and the end of the
\* stream end the sequence; a frame that parses is the next element
RECURSIVE ReadOn(_, _)
ReadOn(fs, pos) ==
    IF pos >= Len(fs) THEN [found |-> FALSE, pos |-> pos, value |-> EmptyDict]
    ELSE LET f == fs[pos + 1]
             parsed == json_loads(f)
         IN IF f = SentinelFrame
            THEN [found |-> FALSE, pos |-> pos + 1, value |-> EmptyDict]
            ELSE IF f = EmptyFrame \/ f = KeepAliveFrame \/ ~parsed.ok
            THEN ReadOn(fs, pos + 1)
            ELSE IF parsed.value.type = "dict"
            THEN [found |-> TRUE, pos |-> pos + 1, value |-> parsed.value.d]
            ELSE ReadOn(fs, pos + 1)

\* what reading a transport that has been closed can do: raise, or find
\* the stream at its end
ClosedReads == {"failed", "done"}

\* the caller, to whom send_message has returned the lazy sequence, asks
\* it for its next element
process_stream_response_next(t) ==
    /\ pc[t] = "idle" /\ result[t] = "returned"
    /\ gen[t].state \in {"created", "running"}
    /\ IF transport[t] = "open"
       THEN LET r == ReadOn(frames, gen[t].pos)
            IN gen' = [gen EXCEPT ![t] =
                  [state |-> IF r.found THEN "running" ELSE "done",
                   pos |-> r.pos,
                   out |-> IF r.found THEN Append(@.out, r.value) ELSE @.out,
                   late |-> @.late]]
       ELSE \E e \in ClosedReads :
               gen' = [gen EXCEPT ![t] = [@ EXCEPT !.state = e, !.late = TRUE]]
    /\ UNCHANGED <<env, self_vars, file, pc, op, result, trace, request,
                   response, start, seen, saved, nops, steps, answers,
                   transport, pending>>
\* ------------------------------------------------------------------------
\* AsyncDeepseekAPI.login
\* ------------------------------------------------------------------------
\* the email/password check and the first request of the fresh flow
AsyncLogin_fresh(t, tr) ==
    LET c == cfg[owner[t]]
    IN IF MissingCredentials(c)
       THEN Finish(t, "ValueError", tr)
       ELSE Goto(t, "login_session_id", Append(tr, CallSessionId))

\* login is called: the api_key branch, then the fresh flow whether or not
\* the file exists
AsyncLogin_call_nocache(t) ==
    /\ class[owner[t]] = "Async"
    /\ Begin(t, LoginOp)
    /\ LET s == owner[t]
           c == cfg[s]
       IN IF Truthy(c.api_key)
          THEN /\ headers' = [headers EXCEPT ![s] = ApiKeyHeaders(@, c.api_key)]
               /\ Finish(t, "returned", <<>>)
          ELSE /\ UNCHANGED headers
               /\ AsyncLogin_fresh(t, <<EvExists>>)
    /\ UNCHANGED <<env, stream_vars, chat_headers, chat_history, credentials, session_id,
                   auth_token, cookie, file, request, response, saved>>

\* login is called: the api_key branch, the existence check of the file
AsyncLogin_call(t) ==
    /\ class[owner[t]] = "Async"
    /\ Begin(t, LoginOp)
    /\ LET s == owner[t]
           c == cfg[s]
       IN IF Truthy(c.api_key)
          THEN /\ headers' = [headers EXCEPT ![s] = ApiKeyHeaders(@, c.api_key)]
               /\ Finish(t, "returned", <<>>)
          ELSE /\ UNCHANGED headers
               /\ IF file.exists
                  THEN Goto(t, "login_read", <<EvExists>>)
                  ELSE AsyncLogin_fresh(t, <<EvExists>>)
    /\ UNCHANGED <<env, stream_vars, chat_headers, chat_history, credentials, session_id,
                   auth_token, cookie, file, request, response, saved>>

\* await f.read() ends and the content is parsed: a dict is stored and gives
\* the Cookie header, and the return is on its way out of the async with
\* block; anything else raises, and the exception is on its way out
AsyncLogin_read(t) ==
    /\ class[owner[t]] = "Async"
    /\ pc[t] = "login_read"
    /\ LET s == owner[t]
           parsed == json_loads(file.text)
           exc == IF ~parsed.ok THEN "JSONDecodeError" ELSE "AttributeError"
       IN /\ seen' = [seen EXCEPT ![t] = [read |-> TRUE, text |-> file.text,
                                          saved |-> saved]]
          /\ credentials' = [credentials EXCEPT
                               ![s] = IF parsed.ok THEN parsed.value ELSE @]
          /\ IF parsed.ok /\ parsed.value.type = "dict"
             THEN /\ headers' = [headers EXCEPT
                                   ![s] = CachedHeaders(@, parsed.value.d)]
                  /\ pending' = [pending EXCEPT ![t] = "returned"]
             ELSE /\ UNCHANGED headers
                  /\ pending' = [pending EXCEPT ![t] = exc]
    /\ Goto(t, "login_close", Append(trace[t], EvRead))
    /\ UNCHANGED <<env, transport, gen, answers, chat_headers, chat_history,
                   session_id, auth_token, cookie, file, op, request,
                   response, start, saved, nops>>

\* the exit of the async with block ends, the file closed: login returns,
\* or the exception of the load is reported and login goes on
AsyncLogin_close(t) ==
    /\ class[owner[t]] = "Async"
    /\ pc[t] = "login_close"
    /\ IF pending[t] = "returned"
       THEN Finish(t, "returned", trace[t])
       ELSE IF Caught(pending[t])
       THEN AsyncLogin_fresh(t, trace[t])
       ELSE Finish(t, pending[t], trace[t])
    /\ pending' = [pending EXCEPT ![t] = "none"]
    /\ UNCHANGED <<env, transport, gen, answers, self_vars, file, op, request,
                   response, start, seen, saved, nops>>

\* get_session_id answers
AsyncLogin_session_id(t) ==
    /\ class[owner[t]] = "Async"
    /\ pc[t] = "login_session_id"
    /\ \E a \in Answers(SessionIds) :
       /\ answers' = [answers EXCEPT ![t] = Append(@, a)]
       /\ LET s == owner[t]
             c == cfg[s]
         IN IF get_session_id(a) = "returned"
            THEN /\ session_id' = [session_id EXCEPT ![s] = a.v]
                 /\ headers' = [headers EXCEPT ![s] = SessionIdHeaders(@, a.v)]
                 /\ Goto(t, "login_auth_token",
                         trace[t] \o <<EvAnswer(a.v),
                                       CallAuthToken(c.email, c.password, a.v)>>)
            ELSE /\ UNCHANGED <<session_id, headers>>
                 /\ Finish(t, get_session_id(a), trace[t])
    /\ UNCHANGED <<env, stream_vars, chat_headers, chat_history, credentials, auth_token,
                   cookie, file, op, request, response, start, seen, saved, nops>>

\* get_auth_token answers
AsyncLogin_auth_token(t) ==
    /\ class[owner[t]] = "Async"
    /\ pc[t] = "login_auth_token"
    /\ \E a \in Answers({TokenFor(session_id[owner[t]])}) :
       /\ answers' = [answers EXCEPT ![t] = Append(@, a)]
       /\ LET s == owner[t]
         IN IF get_auth_token(a) = "returned"
            THEN /\ auth_token' = [auth_token EXCEPT ![s] = a.v]
                 /\ headers' = [headers EXCEPT ![s] = AuthTokenHeaders(@, a.v)]
                 /\ Goto(t, "login_cookies",
                         trace[t] \o <<EvAnswer(a.v), CallCookies(a.v)>>)
            ELSE /\ UNCHANGED <<auth_token, headers>>
                 /\ Finish(t, get_auth_token(a), trace[t])
    /\ UNCHANGED <<env, stream_vars, chat_headers, chat_history, credentials, session_id,
                   cookie, file, op, request, response, start, seen, saved, nops>>

\* get_cookies answers; the credentials are saved whether or not it succeeded
AsyncLogin_cookies_always(t) ==
    /\ class[owner[t]] = "Async"
    /\ pc[t] = "login_cookies"
    /\ \E a \in Answers({CookieFor(auth_token[owner[t]])}) :
       /\ answers' = [answers EXCEPT ![t] = Append(@, a)]
       /\ LET s == owner[t]
         IN /\ cookie' = [cookie EXCEPT ![s] = a.v]
            /\ headers' = [headers EXCEPT ![s] = CookieHeaders(@, a.v)]
            /\ credentials' = [credentials EXCEPT ![s] =
                   PyDict(MakeCredentials(session_id[s], auth_token[s], a.v))]
            /\ Goto(t, "login_open",
                    IF a.ok THEN Append(trace[t], EvAnswer(a.v)) ELSE trace[t])
    /\ UNCHANGED <<env, stream_vars, chat_headers, chat_history, session_id, auth_token,
                   file, op, request, response, start, seen, saved, nops>>

\* get_cookies answers; the credentials dict is built
AsyncLogin_cookies(t) ==
    /\ class[owner[t]] = "Async"
    /\ pc[t] = "login_cookies"
    /\ \E a \in Answers({CookieFor(auth_token[owner[t]])}) :
       /\ answers' = [answers EXCEPT ![t] = Append(@, a)]
       /\ LET s == owner[t]
         IN IF get_cookies(a) = "returned"
            THEN /\ cookie' = [cookie EXCEPT ![s] = a.v]
                 /\ headers' = [headers EXCEPT ![s] = CookieHeaders(@, a.v)]
                 /\ credentials' = [credentials EXCEPT ![s] =
                        PyDict(MakeCredentials(session_id[s], auth_token[s], a.v))]
                 /\ Goto(t, "login_open", Append(trace[t], EvAnswer(a.v)))
            ELSE /\ UNCHANGED <<cookie, headers, credentials>>
                 /\ Finish(t, get_cookies(a), trace[t])
    /\ UNCHANGED <<env, stream_vars, chat_headers, chat_history, session_id, auth_token,
                   file, op, request, response, start, seen, saved, nops>>

\* the file is opened for writing, which empties it
AsyncLogin_open(t) ==
    /\ class[owner[t]] = "Async"
    /\ pc[t] = "login_open"
    /\ file' = FileOf(<<>>)
    /\ saved' = [NoSaved EXCEPT !.by = t]
    /\ Goto(t, "login_write", Append(trace[t], EvOpenW))
    /\ UNCHANGED answers
    /\ UNCHANGED <<env, stream_vars, self_vars, op, request, response, start, seen, nops>>

\* the serialised credentials reach the file as it is closed
AsyncLogin_write(t) ==
    /\ class[owner[t]] = "Async"
    /\ pc[t] = "login_write"
    /\ LET s == owner[t]
           text == WriteAt0(file.text, DumpCredentials(credentials[s]))
       IN /\ file' = FileOf(text)
          /\ saved' = IF text = DumpCredentials(credentials[s])
                         /\ credentials[s].type = "dict"
                      THEN [set |-> TRUE, d |-> credentials[s].d, by |-> t,
                            alone |-> saved.by = t]
                      ELSE [NoSaved EXCEPT !.by = t, !.alone = (saved.by = t)]
    /\ Finish(t, "returned", Append(trace[t], EvWrite))
    /\ UNCHANGED answers
    /\ UNCHANGED <<env, stream_vars, self_vars, op, request, response, start, seen, nops>>

\* ------------------------------------------------------------------------
\* AsyncDeepseekAPI.get_models
\* ------------------------------------------------------------------------
\* session.get(url, headers=self.headers): aiohttp copies the headers at the
\* call. With string values the GET request goes out with them. A value
\* that is None is refused only when the request is written, after the
\* connection has been awaited: the call waits for the connection with
\* nothing sent
AsyncGetModels_call(t) ==
    /\ class[owner[t]] = "Async"
    /\ Begin(t, ModelsOp)
    /\ IF HasNoneValue(headers[owner[t]])
       THEN /\ request' = [request EXCEPT ![t] = NoRequest]
            /\ Goto(t, "models_connect", <<>>)
       ELSE /\ request' = [request EXCEPT ![t] =
                     [method |-> "GET", url |-> ModelsUrl,
                      headers |-> headers[owner[t]], json |-> EmptyDict]]
            /\ Goto(t, "models_wait", <<CallHttp("GET", ModelsUrl)>>)
    /\ UNCHANGED <<env, stream_vars, self_vars, file, response, saved>>

\* the connection attempt of a call whose headers hold None ends: it failed
\* and the call raises the connection error, or it succeeded and writing
\* the headers raises TypeError; either way nothing was sent, and the
\* session is closed on the way out
AsyncGetModels_connect(t) ==
    /\ class[owner[t]] = "Async"
    /\ pc[t] = "models_connect"
    /\ \E connected \in BOOLEAN :
       IF connected
       THEN /\ Finish(t, "TypeError", trace[t])
            /\ UNCHANGED answers
       ELSE /\ Finish(t, "ClientConnectorError", trace[t])
            /\ answers' = [answers EXCEPT ![t] = Append(@, Unreachable)]
    /\ UNCHANGED <<env, stream_vars, self_vars, file, op, request, response,
                   start, seen, saved, nops>>

\* the answer arrives; a failed request is sent once more before giving up
AsyncGetModels_response_retry(t) ==
    /\ class[owner[t]] = "Async"
    /\ pc[t] = "models_wait"
    /\ \E a \in Answers({"models"}) :
       /\ answers' = [answers EXCEPT ![t] = Append(@, a)]
       /\ IF raise_for_status(a) # "returned" /\ Len(trace[t]) < 2
         THEN Goto(t, "models_wait", Append(trace[t], CallHttp("GET", ModelsUrl)))
         ELSE Finish(t, raise_for_status(a), trace[t])
    /\ UNCHANGED <<env, stream_vars, self_vars, file, op, request, response,
                   start, seen, saved, nops>>

\* the answer arrives: raise_for_status, then the body is returned
AsyncGetModels_response(t) ==
    /\ class[owner[t]] = "Async"
    /\ pc[t] = "models_wait"
    /\ \E a \in Answers({"models"}) :
       /\ answers' = [answers EXCEPT ![t] = Append(@, a)]
       /\ Finish(t, raise_for_status(a), trace[t])
    /\ UNCHANGED <<env, stream_vars, self_vars, file, op, request, response,
                   start, seen, saved, nops>>

\* ------------------------------------------------------------------------
\* AsyncDeepseekAPI.send_message
\* ------------------------------------------------------------------------
\* as below, but the chat headers are self.headers itself, not a copy
AsyncSendMessage_call_shared(t) ==
    /\ class[owner[t]] = "Async"
    /\ \E o \in SendOps :
         LET s == owner[t]
             ch == EnsureChatHeaders(chat_headers[s], headers[s])
         IN /\ Begin(t, o)
            /\ chat_headers' = [chat_headers EXCEPT ![s] = ch]
            /\ headers' = [headers EXCEPT ![s] = ch]
            /\ request' = [request EXCEPT ![t] =
                  [method |-> "POST", url |-> SendUrl, headers |-> ch,
                   json |-> Payload(o.message, o.model, o.stream,
                                    chat_history[s], o.kwargs)]]
    /\ Goto(t, "send_wait", <<CallHttp("POST", SendUrl)>>)
    /\ transport' = [transport EXCEPT ![t] = "open"]
    /\ gen' = [gen EXCEPT ![t] = NoGen]
    /\ UNCHANGED <<env, chat_history, credentials, session_id,
                   auth_token, cookie, file, response, saved, pending>>

\* chat headers are built if missing, the payload is built and posted
AsyncSendMessage_call(t) ==
    /\ class[owner[t]] = "Async"
    /\ \E o \in SendOps :
         LET s == owner[t]
             ch == EnsureChatHeaders(chat_headers[s], headers[s])
         IN /\ Begin(t, o)
            /\ chat_headers' = [chat_headers EXCEPT ![s] = ch]
            /\ request' = [request EXCEPT ![t] =
                  [method |-> "POST", url |-> SendUrl, headers |-> ch,
                   json |-> Payload(o.message, o.model, o.stream,
                                    chat_history[s], o.kwargs)]]
    /\ Goto(t, "send_wait", <<CallHttp("POST", SendUrl)>>)
    /\ transport' = [transport EXCEPT ![t] = "open"]
    /\ gen' = [gen EXCEPT ![t] = NoGen]
    /\ UNCHANGED <<env, headers, chat_history, credentials, session_id,
                   auth_token, cookie, file, response, saved, pending>>

\* async with self.client.stream(...) as response: the answer begins to
\* arrive and the with block is entered, its transport open
AsyncSendMessage_response(t) ==
    /\ class[owner[t]] = "Async"
    /\ pc[t] = "send_wait"
    /\ \E a \in ChatAnswers :
         answers' = [answers EXCEPT ![t] =
            Append(@, IF a.ok /\ op[t].stream THEN StreamedAnswer ELSE a)]
    /\ Goto(t, "send_status", trace[t])
    /\ UNCHANGED <<env, stream_vars, self_vars, file, op, request, response,
                   start, seen, saved, nops>>

\* await raise_for_status(response) ends: the error is on its way out of
\* the with block; or a streamed send has called process_stream_response
\* and the lazy sequence is on its way out; or a plain send goes on to
\* read the body
AsyncSendMessage_status(t) ==
    /\ class[owner[t]] = "Async"
    /\ pc[t] = "send_status"
    /\ LET a == answers[t][Len(answers[t])]
       IN IF raise_for_status(a) # "returned"
          THEN /\ pending' = [pending EXCEPT ![t] = raise_for_status(a)]
               /\ Goto(t, "send_close", trace[t])
               /\ UNCHANGED gen
          ELSE IF op[t].stream
          THEN /\ gen' = [gen EXCEPT ![t] = process_stream_response]
               /\ pending' = [pending EXCEPT ![t] = "returned"]
               /\ Goto(t, "send_close", trace[t])
          ELSE /\ Goto(t, "send_json", trace[t])
               /\ UNCHANGED <<gen, pending>>
    /\ UNCHANGED <<env, self_vars, file, op, request, response, start, seen,
                   saved, nops, answers, transport>>

\* await response.json() ends: the user turn is appended, then the
\* assistant turn, and the reply is on its way out of the with block; a
\* reply without choices raises IndexError after the first append
AsyncSendMessage_json(t) ==
    /\ class[owner[t]] = "Async"
    /\ pc[t] = "send_json"
    /\ LET s == owner[t]
           a == answers[t][Len(answers[t])]
       IN /\ response' = [response EXCEPT ![t] = a]
          /\ IF HasContent(a)
             THEN /\ chat_history' = [chat_history EXCEPT ![s] =
                        AppendAssistant(AppendUser(@, op[t].message),
                                        ContentOf(a))]
                  /\ pending' = [pending EXCEPT ![t] = "returned"]
             ELSE /\ chat_history' = [chat_history EXCEPT ![s] =
                        AppendUser(@, op[t].message)]
                  /\ pending' = [pending EXCEPT ![t] = "IndexError"]
    /\ Goto(t, "send_close", trace[t])
    /\ UNCHANGED <<env, headers, chat_headers, credentials, session_id,
                   auth_token, cookie, file, op, request, start, seen,
                   saved, nops, answers, transport, gen>>

\* as below, but a streamed send leaves the response transport open for
\* the lazy sequence it returns
AsyncSendMessage_close_keepopen(t) ==
    /\ class[owner[t]] = "Async"
    /\ pc[t] = "send_close"
    /\ transport' = [transport EXCEPT ![t] =
                       IF op[t].stream /\ gen[t].state = "created"
                       THEN "open" ELSE "closed"]
    /\ pending' = [pending EXCEPT ![t] = "none"]
    /\ Finish(t, pending[t], trace[t])
    /\ UNCHANGED <<env, self_vars, file, op, request, response, start, seen,
                   saved, nops, answers, gen>>

\* the exit of the async with block ends: the response transport is closed
\* and the call returns or raises what was on its way out
AsyncSendMessage_close(t) ==
    /\ class[owner[t]] = "Async"
    /\ pc[t] = "send_close"
    /\ transport' = [transport EXCEPT ![t] = "closed"]
    /\ pending' = [pending EXCEPT ![t] = "none"]
    /\ Finish(t, pending[t], trace[t])
    /\ UNCHANGED <<env, self_vars, file, op, request, response, start, seen,
                   saved, nops, answers, gen>>

\* the points at which send_message is suspended
SendAwaits == {"send_wait", "send_status", "send_json", "send_close"}

\* the coroutine is cancelled at one of its awaits. Inside the body of the
\* async with block (lines 105, 109) the CancelledError is on its way out
\* and the exit of the block is awaited, the transport still open; while
\* the block is entered or left the call raises and the transport is
\* closed. What the call has appended or created by then stays
AsyncSendMessage_cancel(t) ==
    /\ class[owner[t]] = "Async"
    /\ pc[t] \in SendAwaits
    /\ IF pc[t] \in {"send_status", "send_json"}
       THEN /\ pending' = [pending EXCEPT ![t] = "CancelledError"]
            /\ Goto(t, "send_close", trace[t])
            /\ UNCHANGED transport
       ELSE /\ pending' = [pending EXCEPT ![t] = "none"]
            /\ transport' = [transport EXCEPT ![t] = "closed"]
            /\ Finish(t, "CancelledError", trace[t])
    /\ UNCHANGED <<env, self_vars, file, op, request, response, start, seen,
                   saved, nops, answers, gen>>

\* ------------------------------------------------------------------------
\* SyncDeepseekAPI.login
\* ------------------------------------------------------------------------
\* the email/password check and the first request of the fresh flow
SyncLogin_fresh(t, tr) ==
    LET c == cfg[owner[t]]
    IN IF MissingCredentials(c)
       THEN Finish(t, "ValueError", tr)
       ELSE Goto(t, "login_session_id", Append(tr, CallSessionId))

\* login is called: the api_key branch, the existence check of the file
SyncLogin_call(t) ==
    /\ class[owner[t]] = "Sync"
    /\ Begin(t, LoginOp)
    /\ LET s == owner[t]
           c == cfg[s]
       IN IF Truthy(c.api_key)
          THEN /\ headers' = [headers EXCEPT ![s] = ApiKeyHeaders(@, c.api_key)]
               /\ Finish(t, "returned", <<>>)
          ELSE /\ UNCHANGED headers
               /\ IF file.exists
                  THEN Goto(t, "login_read", <<EvExists>>)
                  ELSE SyncLogin_fresh(t, <<EvExists>>)
    /\ UNCHANGED <<env, stream_vars, chat_headers, chat_history, credentials, session_id,
                   auth_token, cookie, file, request, response, saved>>

\* the file is read and parsed; a dict gives the Cookie header and login
\* returns, anything else is reported and login goes on
SyncLogin_read(t) ==
    /\ class[owner[t]] = "Sync"
    /\ pc[t] = "login_read"
    /\ LET s == owner[t]
           parsed == json_loads(file.text)
           tr == Append(trace[t], EvRead)
           exc == IF ~parsed.ok THEN "JSONDecodeError" ELSE "AttributeError"
       IN /\ seen' = [seen EXCEPT ![t] = [read |-> TRUE, text |-> file.text,
                                          saved |-> saved]]
          /\ credentials' = [credentials EXCEPT
                               ![s] = IF parsed.ok THEN parsed.value ELSE @]
          /\ UNCHANGED answers
          /\ IF parsed.ok /\ parsed.value.type = "dict"
             THEN /\ headers' = [headers EXCEPT
                                   ![s] = CachedHeaders(@, parsed.value.d)]
                  /\ Finish(t, "returned", tr)
             ELSE /\ UNCHANGED headers
                  /\ IF Caught(exc)
                     THEN SyncLogin_fresh(t, tr)
                     ELSE Finish(t, exc, tr)
    /\ UNCHANGED <<env, stream_vars, chat_headers, chat_history, session_id, auth_token,
                   cookie, file, op, request, response, start, saved, nops>>

\* get_session_id answers
SyncLogin_session_id(t) ==
    /\ class[owner[t]] = "Sync"
    /\ pc[t] = "login_session_id"
    /\ \E a \in Answers(SessionIds) :
       /\ answers' = [answers EXCEPT ![t] = Append(@, a)]
       /\ LET s == owner[t]
             c == cfg[s]
         IN IF get_session_id(a) = "returned"
            THEN /\ session_id' = [session_id EXCEPT ![s] = a.v]
                 /\ headers' = [headers EXCEPT ![s] = SessionIdHeaders(@, a.v)]
                 /\ Goto(t, "login_auth_token",
                         trace[t] \o <<EvAnswer(a.v),
                                       CallAuthToken(c.email, c.password, a.v)>>)
            ELSE /\ UNCHANGED <<session_id, headers>>
                 /\ Finish(t, get_session_id(a), trace[t])
    /\ UNCHANGED <<env, stream_vars, chat_headers, chat_history, credentials, auth_token,
                   cookie, file, op, request, response, start, seen, saved, nops>>

\* get_auth_token answers
SyncLogin_auth_token(t) ==
    /\ class[owner[t]] = "Sync"
    /\ pc[t] = "login_auth_token"
    /\ \E a \in Answers({TokenFor(session_id[owner[t]])}) :
       /\ answers' = [answers EXCEPT ![t] = Append(@, a)]
       /\ LET s == owner[t]
         IN IF get_auth_token(a) = "returned"
            THEN /\ auth_token' = [auth_token EXCEPT ![s] = a.v]
                 /\ headers' = [headers EXCEPT ![s] = AuthTokenHeaders(@, a.v)]
                 /\ Goto(t, "login_cookies",
                         trace[t] \o <<EvAnswer(a.v), CallCookies(a.v)>>)
            ELSE /\ UNCHANGED <<auth_token, headers>>
                 /\ Finish(t, get_auth_token(a), trace[t])
    /\ UNCHANGED <<env, stream_vars, chat_headers, chat_history, credentials, session_id,
                   cookie, file, op, request, response, start, seen, saved, nops>>

\* get_cookies answers; the credentials dict is built
SyncLogin_cookies(t) ==
    /\ class[owner[t]] = "Sync"
    /\ pc[t] = "login_cookies"
    /\ \E a \in Answers({CookieFor(auth_token[owner[t]])}) :
       /\ answers' = [answers EXCEPT ![t] = Append(@, a)]
       /\ LET s == owner[t]
         IN IF get_cookies(a) = "returned"
            THEN /\ cookie' = [cookie EXCEPT ![s] = a.v]
                 /\ headers' = [headers EXCEPT ![s] = CookieHeaders(@, a.v)]
                 /\ credentials' = [credentials EXCEPT ![s] =
                        PyDict(MakeCredentials(session_id[s], auth_token[s], a.v))]
                 /\ Goto(t, "login_open", Append(trace[t], EvAnswer(a.v)))
            ELSE /\ UNCHANGED <<cookie, headers, credentials>>
                 /\ Finish(t, get_cookies(a), trace[t])
    /\ UNCHANGED <<env, stream_vars, chat_headers, chat_history, session_id, auth_token,
                   file, op, request, response, start, seen, saved, nops>>

\* the file is opened for writing, which empties it
SyncLogin_open(t) ==
    /\ class[owner[t]] = "Sync"
    /\ pc[t] = "login_open"
    /\ file' = FileOf(<<>>)
    /\ saved' = [NoSaved EXCEPT !.by = t]
    /\ Goto(t, "login_write", Append(trace[t], EvOpenW))
    /\ UNCHANGED answers
    /\ UNCHANGED <<env, stream_vars, self_vars, op, request, response, start, seen, nops>>

\* the serialised credentials reach the file as it is closed
SyncLogin_write(t) ==
    /\ class[owner[t]] = "Sync"
    /\ pc[t] = "login_write"
    /\ LET s == owner[t]
           text == WriteAt0(file.text, DumpCredentials(credentials[s]))
       IN /\ file' = FileOf(text)
          /\ saved' = IF text = DumpCredentials(credentials[s])
                         /\ credentials[s].type = "dict"
                      THEN [set |-> TRUE, d |-> credentials[s].d, by |-> t,
                            alone |-> saved.by = t]
                      ELSE [NoSaved EXCEPT !.by = t, !.alone = (saved.by = t)]
    /\ Finish(t, "returned", Append(trace[t], EvWrite))
    /\ UNCHANGED answers
    /\ UNCHANGED <<env, stream_vars, self_vars, op, request, response, start, seen, nops>>

\* ------------------------------------------------------------------------
\* SyncDeepseekAPI.get_models
\* ------------------------------------------------------------------------
\* self.client.get(url, headers=self.headers): httpx builds the request and
\* raises TypeError on a header value that is None, before anything is
\* sent; otherwise the GET request is sent with self.headers
SyncGetModels_call(t) ==
    /\ class[owner[t]] = "Sync"
    /\ Begin(t, ModelsOp)
    /\ IF HasNoneValue(headers[owner[t]])
       THEN /\ request' = [request EXCEPT ![t] = NoRequest]
            /\ Finish(t, "TypeError", <<>>)
       ELSE /\ request' = [request EXCEPT ![t] =
                     [method |-> "GET", url |-> ModelsUrl,
                      headers |-> headers[owner[t]], json |-> EmptyDict]]
            /\ Goto(t, "models_wait", <<CallHttp("GET", ModelsUrl)>>)
    /\ UNCHANGED <<env, stream_vars, self_vars, file, response, saved>>

\* the answer arrives: raise_for_status, then the body is returned
SyncGetModels_response(t) ==
    /\ class[owner[t]] = "Sync"
    /\ pc[t] = "models_wait"
    /\ \E a \in Answers({"models"}) :
       /\ answers' = [answers EXCEPT ![t] = Append(@, a)]
       /\ Finish(t, raise_for_status(a), trace[t])
    /\ UNCHANGED <<env, stream_vars, self_vars, file, op, request, response,
                   start, seen, saved, nops>>

\* ------------------------------------------------------------------------
\* SyncDeepseekAPI.send_message
\* ------------------------------------------------------------------------
\* chat headers are built if missing and the payload is built;
\* self.client.stream(...) builds the request, and httpx raises TypeError
\* on a header value that is None, before anything is sent; otherwise the
\* request is posted
SyncSendMessage_call(t) ==
    /\ class[owner[t]] = "Sync"
    /\ \E o \in SendOps :
         LET s == owner[t]
             ch == EnsureChatHeaders(chat_headers[s], headers[s])
         IN /\ Begin(t, o)
            /\ chat_headers' = [chat_headers EXCEPT ![s] = ch]
            /\ IF HasNoneValue(ch)
               THEN /\ request' = [request EXCEPT ![t] = NoRequest]
                    /\ transport' = [transport EXCEPT ![t] = "none"]
                    /\ Finish(t, "TypeError", <<>>)
               ELSE /\ request' = [request EXCEPT ![t] =
                        [method |-> "POST", url |-> SendUrl, headers |-> ch,
                         json |-> Payload(o.message, o.model, o.stream,
                                          chat_history[s], o.kwargs)]]
                    /\ transport' = [transport EXCEPT ![t] = "open"]
                    /\ Goto(t, "send_wait", <<CallHttp("POST", SendUrl)>>)
    /\ gen' = [gen EXCEPT ![t] = NoGen]
    /\ UNCHANGED <<env, headers, chat_history, credentials, session_id,
                   auth_token, cookie, file, response, saved, pending>>

\* the answer arrives: raise_for_status; a streamed send returns the lazy
\* sequence; a plain send calls response.json() on a response whose body
\* was not read, which raises httpx.ResponseNotRead before the appends;
\* leaving the with block closes the response transport
SyncSendMessage_response(t) ==
    /\ class[owner[t]] = "Sync"
    /\ pc[t] = "send_wait"
    /\ \E a \in ChatAnswers :
         IF raise_for_status(a) # "returned"
         THEN /\ UNCHANGED gen
              /\ answers' = [answers EXCEPT ![t] = Append(@, a)]
              /\ Finish(t, raise_for_status(a), trace[t])
         ELSE IF op[t].stream
         THEN /\ answers' = [answers EXCEPT ![t] = Append(@, StreamedAnswer)]
              /\ gen' = [gen EXCEPT ![t] = process_stream_response]
              /\ Finish(t, "returned", trace[t])
         ELSE /\ answers' = [answers EXCEPT ![t] = Append(@, a)]
              /\ UNCHANGED gen
              /\ Finish(t, "ResponseNotRead", trace[t])
    /\ transport' = [transport EXCEPT ![t] = "closed"]
    /\ UNCHANGED <<env, self_vars, file, op, request, response, start, seen,
                   saved, nops, pending>>

\* ------------------------------------------------------------------------
\* Specification
\* ------------------------------------------------------------------------
\* each session has one caller, and the two run side by side
Next ==
    \E t \in {1, 2} :
        \/ AsyncLogin_call(t)
        \/ AsyncLogin_read(t)
        \/ AsyncLogin_close(t)
        \/ AsyncLogin_session_id(t)
        \/ AsyncLogin_auth_token(t)
        \/ AsyncLogin_cookies(t)
        \/ AsyncLogin_open(t)
        \/ AsyncLogin_write(t)
        \/ AsyncGetModels_call(t)
        \/ AsyncGetModels_connect(t)
        \/ AsyncGetModels_response(t)
        \/ AsyncSendMessage_call(t)
        \/ AsyncSendMessage_response(t)
        \/ AsyncSendMessage_status(t)
        \/ AsyncSendMessage_json(t)
        \/ AsyncSendMessage_close(t)
        \/ SyncLogin_call(t)
        \/ SyncLogin_read(t)
        \/ SyncLogin_session_id(t)
        \/ SyncLogin_auth_token(t)
        \/ SyncLogin_cookies(t)
        \/ SyncLogin_open(t)
        \/ SyncLogin_write(t)
        \/ SyncGetModels_call(t)
        \/ SyncGetModels_response(t)
        \/ SyncSendMessage_call(t)
        \/ SyncSendMessage_response(t)

Spec == Init /\ [][Next]_vars


\* ------------------------------------------------------------------------
\* The two facades side by side
\* ------------------------------------------------------------------------
\* Session 1 (Async) and session 2 (Sync) are constructed alike and are
\* given the same calls. Session 1 takes a step, then session 2 takes the
\* same step of its own code; the awaits that the Async code has at the exit
\* of the load's block and after the answer to send_message began to arrive
\* are steps the Sync code does not have, and session 1 takes them on its
\* own. The service answers each session
\* as it pleases.
MaxPairs == 2

MirrorInit ==
    /\ Constructed
    /\ cfg[1] = cfg[2]
    /\ limit = 2 * MaxPairs
    /\ frames = <<>>

\* both sessions have begun as many calls and are through with them or
\* have taken as many steps
InStep ==
    /\ nops % 2 = 0
    /\ (pc[1] = "idle" /\ pc[2] = "idle") \/ steps[1] = steps[2]
\* both sessions were given the same call and the same answers
SameInputs == op[1] = op[2] /\ answers[1] = answers[2]
\* the Async call is at an await of its own
AsyncAlone == pc[1] \in AsyncOnly

AsyncTurn ==
    \/ InStep /\ SameInputs
    \/ AsyncAlone
    \/ nops % 2 = 0 /\ pc[1] # "idle" /\ pc[2] = "idle"
SyncTurn ==
    /\ ~AsyncAlone
    /\ \/ nops % 2 = 1
       \/ pc[2] # "idle" /\ (pc[1] = "idle" \/ steps[2] < steps[1])

MirrorNext ==
    \/ AsyncTurn /\ AsyncSendMessage_call(1)
    \/ AsyncTurn /\ AsyncSendMessage_response(1)
    \/ AsyncTurn /\ AsyncSendMessage_status(1)
    \/ AsyncTurn /\ AsyncSendMessage_json(1)
    \/ AsyncTurn /\ AsyncSendMessage_close(1)
    \/ SyncTurn /\ SyncSendMessage_call(2) /\ op'[2] = op[1]
    \/ SyncTurn /\ SyncSendMessage_response(2)
    \/ AsyncTurn /\ AsyncLogin_call(1)
    \/ AsyncTurn /\ AsyncLogin_read(1)
    \/ AsyncTurn /\ AsyncLogin_close(1)
    \/ AsyncTurn /\ AsyncLogin_session_id(1)
    \/ AsyncTurn /\ AsyncLogin_auth_token(1)
    \/ AsyncTurn /\ AsyncLogin_cookies(1)
    \/ AsyncTurn /\ AsyncLogin_open(1)
    \/ AsyncTurn /\ AsyncLogin_write(1)
    \/ AsyncTurn /\ AsyncGetModels_call(1)
    \/ AsyncTurn /\ AsyncGetModels_connect(1)
    \/ AsyncTurn /\ AsyncGetModels_response(1)
    \/ SyncTurn /\ SyncLogin_call(2) /\ op'[2] = op[1]
    \/ SyncTurn /\ SyncLogin_read(2)
    \/ SyncTurn /\ SyncLogin_session_id(2)
    \/ SyncTurn /\ SyncLogin_auth_token(2)
    \/ SyncTurn /\ SyncLogin_cookies(2)
    \/ SyncTurn /\ SyncLogin_open(2)
    \/ SyncTurn /\ SyncLogin_write(2)
    \/ SyncTurn /\ SyncGetModels_call(2) /\ op'[2] = op[1]
    \/ SyncTurn /\ SyncGetModels_response(2)

SpecMirror == MirrorInit /\ [][MirrorNext]_vars

\* ------------------------------------------------------------------------
\* Sends, streamed and plain, and the use of what a streamed send returns
\* ------------------------------------------------------------------------
\* The sessions hold an API key; the service has any frame sequence to
\* stream. Sends are made, the Async ones may be cancelled, and the caller
\* draws elements from the lazy sequence a streamed send returned.
StreamInit ==
    /\ Constructed
    /\ cfg = [s \in Sessions |-> Cfg("k1", "e1", "pw")]
    /\ file = NoFile
    /\ limit = MaxOps
    /\ frames \in FrameSeqs

StreamNext ==
    \E t \in {1, 2} :
        \/ AsyncSendMessage_call(t)
        \/ AsyncSendMessage_response(t)
        \/ AsyncSendMessage_status(t)
        \/ AsyncSendMessage_json(t)
        \/ AsyncSendMessage_close(t)
        \/ AsyncSendMessage_cancel(t)
        \/ SyncSendMessage_call(t)
        \/ SyncSendMessage_response(t)
        \/ process_stream_response_next(t)

SpecStream == StreamInit /\ [][StreamNext]_vars

\* The same sends and cancellations, with a service that streams nothing.
SendInit ==
    /\ Constructed
    /\ cfg = [s \in Sessions |-> Cfg("k1", "e1", "pw")]
    /\ file = NoFile
    /\ limit = MaxOps
    /\ frames = <<>>

SpecSend == SendInit /\ [][StreamNext]_vars

\* ------------------------------------------------------------------------
\* One session making several calls in turn
\* ------------------------------------------------------------------------
\* Only one of the two sessions makes calls, up to MaxSolo of them, one
\* after the other.
MaxSolo == 3

SoloInit ==
    /\ Constructed
    /\ cfg[1] = cfg[2]
    /\ limit = MaxSolo
    /\ frames = <<>>

\* no other task has made a call
Solo(t) == \A u \in Tasks \ {t} : op[u].name = "none"

SoloNext ==
    \E t \in {1, 2} :
        \/ Solo(t) /\ AsyncLogin_call(t)
        \/ Solo(t) /\ AsyncLogin_read(t)
        \/ Solo(t) /\ AsyncLogin_close(t)
        \/ Solo(t) /\ AsyncLogin_session_id(t)
        \/ Solo(t) /\ AsyncLogin_auth_token(t)
        \/ Solo(t) /\ AsyncLogin_cookies(t)
        \/ Solo(t) /\ AsyncLogin_open(t)
        \/ Solo(t) /\ AsyncLogin_write(t)
        \/ Solo(t) /\ AsyncGetModels_call(t)
        \/ Solo(t) /\ AsyncGetModels_connect(t)
        \/ Solo(t) /\ AsyncGetModels_response(t)
        \/ Solo(t) /\ AsyncSendMessage_call(t)
        \/ Solo(t) /\ AsyncSendMessage_response(t)
        \/ Solo(t) /\ AsyncSendMessage_status(t)
        \/ Solo(t) /\ AsyncSendMessage_json(t)
        \/ Solo(t) /\ AsyncSendMessage_close(t)
        \/ Solo(t) /\ SyncLogin_call(t)
        \/ Solo(t) /\ SyncLogin_read(t)
        \/ Solo(t) /\ SyncLogin_session_id(t)
        \/ Solo(t) /\ SyncLogin_auth_token(t)
        \/ Solo(t) /\ SyncLogin_cookies(t)
        \/ Solo(t) /\ SyncLogin_open(t)
        \/ Solo(t) /\ SyncLogin_write(t)
        \/ Solo(t) /\ SyncGetModels_call(t)
        \/ Solo(t) /\ SyncGetModels_response(t)
        \/ Solo(t) /\ SyncSendMessage_call(t)
        \/ Solo(t) /\ SyncSendMessage_response(t)

SpecSolo == SoloInit /\ [][SoloNext]_vars

\* ------------------------------------------------------------------------
\* Two coroutines on one Async session
\* ------------------------------------------------------------------------
\* Tasks 1 and 3 call send_message on the same AsyncDeepseekAPI instance;
\* each call gives way to the other at its awaits.
ConcInit ==
    /\ Constructed
    /\ cfg[1] = cfg[2]
    /\ limit = MaxOps
    /\ frames = <<>>

ConcNext ==
    \E t \in {1, 3} :
        \/ AsyncSendMessage_call(t)
        \/ AsyncSendMessage_response(t)
        \/ AsyncSendMessage_status(t)
        \/ AsyncSendMessage_json(t)
        \/ AsyncSendMessage_close(t)

SpecConc == ConcInit /\ [][ConcNext]_vars
\* ------------------------------------------------------------------------
\* Properties
\* ------------------------------------------------------------------------
\* no API key is configured for session s
NoApiKey(s) == cfg[s].api_key \in {None, ""}

\* email or password is absent from the configuration of session s
CredentialsAbsent(s) ==
    cfg[s].email \in {None, ""} \/ cfg[s].password \in {None, ""}

\* h with header k set to v
With(h, k, v) == [x \in (DOMAIN h) \cup {k} |-> IF x = k THEN v ELSE h[x]]

\* the text of a credential record with the three fields
RecordText(sid, tok, ck) ==
    <<LBrace, StrTok("session_id"), Colon, StrTok(sid), Comma,
      StrTok("auth_token"), Colon, StrTok(tok), Comma,
      StrTok("cookie"), Colon, StrTok(ck), RBrace>>

\* texts that are not JSON: the empty file and a cut-off object
NonJsonTexts == {<<>>, <<LBrace, StrTok("cookie"), Colon>>}

\* the names of the events of a trace
RECURSIVE Names(_)
Names(tr) == IF tr = <<>> THEN <<>> ELSE <<Head(tr)[1]>> \o Names(Tail(tr))

IsNetOrAnswer(e) == IsNet(e) \/ IsAnswer(e)

\* C1: with an API key configured, login returns with Authorization set to
\* exactly "Bearer <key>", every other header as it was (no Cookie is set),
\* and without a network call or an access to the credential file, whatever
\* the file holds and whether or not email and password are given.
C1_ApiKeyLogin ==
    \A t \in Tasks :
        LET s == owner[t]
            key == cfg[s].api_key
        IN (op[t].name = "login" /\ ~NoApiKey(s)) =>
              /\ pc[t] = "idle"
              /\ result[t] = "returned"
              /\ trace[t] = <<>>
              /\ ~seen[t].read
              /\ headers[s] = With(start[t].headers, "Authorization",
                                   "Bearer " \o key)

\* C1 witness: a login with an API key has returned while a parseable
\* credential file exists and email and password are configured as well.
C1_Witness ==
    \E t \in Tasks :
        /\ op[t].name = "login"
        /\ result[t] = "returned"
        /\ cfg[owner[t]] = Cfg("k1", "e1", "pw")
        /\ file = FileOf(RecordText("s0", "t0", "c0"))
        /\ headers[owner[t]]["Authorization"] = "Bearer k1"

\* C2: with no API key, a login whose read of the credential file finds a
\* JSON object returns, once the file is closed, with zero network calls and
\* no write of the file; it changes no header but Cookie, which it sets to
\* the object's cookie.
C2_CachedLogin ==
    \A t \in Tasks :
        LET s == owner[t]
            text == seen[t].text
        IN (op[t].name = "login" /\ NoApiKey(s) /\ seen[t].read
               /\ IsObjectText(text)) =>
              /\ pc[t] \in {"idle", "login_close"}
              /\ pc[t] = "idle" => result[t] = "returned"
              /\ pc[t] = "login_close" => pending[t] = "returned"
              /\ NetCalls(trace[t]) = <<>>
              /\ FileWrites(trace[t]) = <<>>
              /\ DOMAIN headers[s] = (DOMAIN start[t].headers) \cup {"Cookie"}
              /\ \A x \in (DOMAIN start[t].headers) \ {"Cookie"} :
                    headers[s][x] = start[t].headers[x]
              /\ "cookie" \in DOMAIN ObjectOf(text) =>
                    headers[s]["Cookie"] = ObjectOf(text)["cookie"]

\* C2 witness: a session with email and password but no API key has logged
\* in from the cached record and holds its cookie and no Authorization.
C2_Witness ==
    \E t \in Tasks :
        /\ op[t].name = "login"
        /\ result[t] = "returned"
        /\ cfg[owner[t]] = Cfg("", "e1", "pw")
        /\ seen[t].read
        /\ seen[t].text = RecordText("s0", "t0", "c0")
        /\ headers[owner[t]]["Cookie"] = "c0"
        /\ "Authorization" \notin DOMAIN headers[owner[t]]

\* C3: with no API key, no credential file or one whose load fails, and
\* email or password absent, login raises the configuration error having
\* made no network call, changed no header and written no file.
C3_ConfigurationError ==
    \A t \in Tasks :
        LET s == owner[t]
        IN (op[t].name = "login" /\ NoApiKey(s) /\ CredentialsAbsent(s)) =>
              /\ NetCalls(trace[t]) = <<>>
              /\ pc[t] \in {"idle", "login_read", "login_close"}
              /\ (pc[t] = "idle"
                    /\ (~seen[t].read \/ ~IsObjectText(seen[t].text))) =>
                    /\ result[t] = "ValueError"
                    /\ headers[s] = start[t].headers
                    /\ FileWrites(trace[t]) = <<>>
      
\* C3 witness: a login without a password, having read a file that is not
\* JSON, has failed with the configuration error.
C3_Witness ==
    \E t \in Tasks :
        /\ op[t].name = "login"
        /\ result[t] = "ValueError"
        /\ seen[t].read
        /\ seen[t].text \in NonJsonTexts
        /\ cfg[owner[t]] = Cfg(None, "e1", "")

\* the network calls and answers of a trace, in the order they happened
Exchange(tr) == SelectSeq(tr, IsNetOrAnswer)

\* the three login calls in their order
LoginCallNames == <<"get_session_id", "get_auth_token", "get_cookies">>

\* C4: a login that goes to the network calls get_session_id, get_auth_token
\* and get_cookies in that order, each once and each after the previous
\* answer, passing the session id answered to get_auth_token and the auth
\* token answered to get_cookies; when it has returned the headers are those
\* at the call plus Authorization = "Bearer <auth token>" and Cookie =
\* <cookie>, and the file, if this login wrote it last and no other
\* session wrote it between this login's open and write, holds the triple
\* of the three answers.
C4_FreshLogin ==
    \A t \in Tasks :
        LET s == owner[t]
            n == NetCalls(trace[t])
            a == AnswersIn(trace[t])
        IN (op[t].name = "login" /\ n # <<>>) =>
              /\ Len(n) <= 3
              /\ Names(n) = SubSeq(LoginCallNames, 1, Len(n))
              /\ Len(a) \in {Len(n) - 1, Len(n)}
              /\ \A i \in 1..Len(Exchange(trace[t])) :
                    IsNet(Exchange(trace[t])[i]) <=> i % 2 = 1
              /\ Len(n) >= 2 =>
                    n[2] = <<"get_auth_token", cfg[s].email, cfg[s].password,
                             a[1][2]>>
              /\ Len(n) >= 3 => n[3] = <<"get_cookies", a[2][2]>>
              /\ result[t] = "returned" =>
                    /\ Len(n) = 3 /\ Len(a) = 3
                    /\ headers[s] =
                          With(With(start[t].headers, "Authorization",
                                    "Bearer " \o a[2][2]), "Cookie", a[3][2])
                    /\ Names(FileWrites(trace[t])) = <<"open_w", "write">>
                    /\ (saved.by = t /\ saved.alone) =>
                          file = [exists |-> TRUE,
                                  text |-> RecordText(a[1][2], a[2][2], a[3][2])]

\* C4 witness: a fresh login has returned with the second set of answers and
\* its record is in the file.
C4_Witness ==
    \E t \in Tasks :
        /\ op[t].name = "login"
        /\ result[t] = "returned"
        /\ Len(NetCalls(trace[t])) = 3
        /\ saved.by = t
        /\ file = FileOf(RecordText("s2", "t2", "c2c2"))
        /\ headers[owner[t]]["Authorization"] = "Bearer t2"
        /\ headers[owner[t]]["Cookie"] = "c2c2"

\* C5: a login one of whose three network calls failed ends with the
\* authentication error right after that call: the call is the last event of
\* the login, no call was made twice, and the login never opened or wrote
\* the file; a login opens the file for writing only after all three answers.
C5_FailedStep ==
    \A t \in Tasks :
        LET tr == trace[t]
            n == NetCalls(tr)
            unanswered == Len(n) > Len(AnswersIn(tr))
        IN op[t].name = "login" =>
              /\ (pc[t] = "idle" /\ unanswered) =>
                    /\ result[t] = "AuthError"
                    /\ IsNet(tr[Len(tr)])
                    /\ FileWrites(tr) = <<>>
                    /\ \A i, j \in 1..Len(n) : n[i][1] = n[j][1] => i = j
              /\ result[t] = "AuthError" => (pc[t] = "idle" /\ unanswered)
              /\ \A i \in 1..Len(tr) :
                    IsFileWrite(tr[i]) => Len(AnswersIn(SubSeq(tr, 1, i))) = 3

\* C5 witness: a login whose credential exchange was refused has ended with
\* the authentication error while the file still holds the earlier record.
C5_Witness ==
    \E t \in Tasks :
        /\ op[t].name = "login"
        /\ result[t] = "AuthError"
        /\ Names(NetCalls(trace[t])) = <<"get_session_id", "get_auth_token">>
        /\ file = FileOf(<<LBrack, RBrack>>)

CredentialFields == {"session_id", "auth_token", "cookie"}

\* C6: a login without API key whose read finds the file as a completed
\* save left it loads a record equal to the one saved, field by field, and
\* returns, once the file is closed, with that record's cookie as its
\* Cookie header and no network call.
C6_RoundTrip ==
    \A t \in Tasks :
        LET s == owner[t]
            r == seen[t].saved
        IN (op[t].name = "login" /\ NoApiKey(s) /\ seen[t].read /\ r.set) =>
              /\ pc[t] \in {"idle", "login_close"}
              /\ pc[t] = "idle" => result[t] = "returned"
              /\ pc[t] = "login_close" => pending[t] = "returned"
              /\ NetCalls(trace[t]) = <<>>
              /\ credentials[s].type = "dict"
              /\ DOMAIN credentials[s].d = CredentialFields
              /\ DOMAIN r.d = CredentialFields
              /\ \A k \in CredentialFields : credentials[s].d[k] = r.d[k]
              /\ headers[s]["Cookie"] = r.d["cookie"]

\* C6 witness: a session has logged in from the record another session's
\* fresh login saved.
C6_Witness ==
    \E t \in Tasks :
        /\ op[t].name = "login"
        /\ result[t] = "returned"
        /\ seen[t].read
        /\ seen[t].saved.set
        /\ seen[t].saved.by # t
        /\ seen[t].saved.d["cookie"] = "c1"
        /\ headers[owner[t]]["Cookie"] = "c1"

\* C7: a login without API key whose read finds a file that is not JSON
\* never ends with an error of the load, which is caught once the file is
\* closed: without email or password it
\* raises the configuration error with zero network calls, and with both it
\* starts the fresh flow with get_session_id and, when it returns, has made
\* the three calls and written a record with the three fields.
C7_CorruptFile ==
    \A t \in Tasks :
        LET s == owner[t]
            n == NetCalls(trace[t])
            a == AnswersIn(trace[t])
        IN (op[t].name = "login" /\ NoApiKey(s) /\ seen[t].read
               /\ seen[t].text \in NonJsonTexts) =>
              /\ result[t] \in {"none", "returned", "AuthError", "ValueError"}
              /\ pc[t] = "login_close" => (n = <<>> /\ Caught(pending[t]))
              /\ (CredentialsAbsent(s) /\ pc[t] # "login_close") =>
                    /\ pc[t] = "idle"
                    /\ result[t] = "ValueError"
                    /\ n = <<>>
              /\ (~CredentialsAbsent(s) /\ pc[t] # "login_close") =>
                    /\ n # <<>>
                    /\ n[1] = <<"get_session_id">>
                    /\ result[t] # "ValueError"
                    /\ result[t] = "returned" =>
                          /\ Names(n) = LoginCallNames
                          /\ Names(FileWrites(trace[t])) = <<"open_w", "write">>
                          /\ (saved.by = t /\ saved.alone) =>
                                file.text = RecordText(a[1][2], a[2][2], a[3][2])

\* C7 witness: a login that read a cut-off file has run the fresh flow and
\* returned, and the file now holds its record.
C7_Witness ==
    \E t \in Tasks :
        /\ op[t].name = "login"
        /\ result[t] = "returned"
        /\ seen[t].read
        /\ seen[t].text = <<LBrace, StrTok("cookie"), Colon>>
        /\ file = FileOf(RecordText("s1", "t1", "c1"))

\* C8: a login without API key whose read finds a JSON object lacking one of
\* session_id, auth_token and cookie does not use it: it raises the
\* configuration error with its headers unchanged when email or password is
\* absent, and goes to the network otherwise.
C8_PartialRecordUnused ==
    \A t \in Tasks :
        LET s == owner[t]
            text == seen[t].text
        IN (op[t].name = "login" /\ NoApiKey(s) /\ seen[t].read
               /\ IsObjectText(text)
               /\ ~(CredentialFields \subseteq DOMAIN ObjectOf(text))) =>
              /\ CredentialsAbsent(s) =>
                    (result[t] = "ValueError" /\ headers[s] = start[t].headers)
              /\ ~CredentialsAbsent(s) => NetCalls(trace[t]) # <<>>

\* the plain send of task t was answered with a success status and a body
\* that holds a completion
Completed(t) ==
    /\ op[t].name = "send_message" /\ ~op[t].stream
    /\ answers[t] # <<>>
    /\ answers[t][Len(answers[t])].ok
    /\ HasContent(answers[t][Len(answers[t])])

\* C9: a plain (non-streamed) send posts the history as it stood at the
\* call and leaves the history alone until the reply has been received; a
\* send whose reply is a completion returns, and on returning has appended
\* exactly the user turn with the message and then the assistant turn with
\* the reply's choices[0].message.content.
C9_SendAppendsTwoTurns ==
    \A t \in Tasks :
        LET s == owner[t]
        IN (op[t].name = "send_message" /\ ~op[t].stream
               /\ request[t].method = "POST") =>
              /\ request[t].json["chat_history"] = start[t].history
              /\ pc[t] \in {"send_wait", "send_status", "send_json"}
                    => chat_history[s] = start[t].history
              /\ (pc[t] = "idle" /\ Completed(t)) => result[t] = "returned"
              /\ (pc[t] = "idle" /\ result[t] = "returned") =>
                    /\ Len(response[t].choices) >= 1
                    /\ chat_history[s] = start[t].history \o
                          <<[role |-> "user", content |-> op[t].message],
                            [role |-> "assistant",
                             content |-> response[t].choices[1]]>>

\* s is a prefix of r
IsPrefix(s, r) == Len(s) <= Len(r) /\ SubSeq(r, 1, Len(s)) = s

\* C10: the history only grows, and a call that found it different from
\* what it held at the call is a plain send that returns: streamed
\* sends, failed sends, get_models and login leave it as it was.
C10_HistoryOnlyBySuccessfulSend ==
    \A t \in Tasks :
        LET s == owner[t]
        IN /\ IsPrefix(start[t].history, chat_history[s])
           /\ chat_history[s] # start[t].history =>
                 /\ op[t].name = "send_message"
                 /\ ~op[t].stream
                 /\ \/ result[t] = "returned"
                    \/ pc[t] = "send_close" /\ pending[t] = "returned"


\* ------------------------------------------------------------------------
\* Failed API calls
\* ------------------------------------------------------------------------
ApiCalls == {"get_models", "send_message"}

OthersQuiet(t) == \A u \in Tasks \ {t} : op[u].name = "none"

\* task t is in a login that directly follows a login of the same session
SecondLogin(t) ==
    /\ op[t].name = "login"
    /\ start[t].prev.name = "login"
    /\ OthersQuiet(t)

\* C12 as stated: whatever the configuration and however the first call
\* ended, a second login in a row leaves self.headers and the credential
\* file as the first call left them, and after a first call that succeeded
\* the second makes no network call.
C12_LoginTwiceSameAsOnce ==
    \A t \in Tasks :
        (SecondLogin(t) /\ pc[t] = "idle")
        => /\ headers[owner[t]] = start[t].headers
           /\ file = start[t].file
           /\ start[t].prev.result = "returned" => NetCalls(trace[t]) = <<>>

\* C12 amended: a second login in a row after a login that returned makes
\* no network call and no write to the file, returns, and leaves
\* self.headers and the credential file as the first call left them.
C12_LoginIdempotent ==
    \A t \in Tasks :
        (SecondLogin(t) /\ start[t].prev.result = "returned")
        => /\ NetCalls(trace[t]) = <<>>
           /\ FileWrites(trace[t]) = <<>>
           /\ pc[t] \in {"idle", "login_read", "login_close"}
           /\ pc[t] = "idle"
                => /\ result[t] = "returned"
                   /\ headers[owner[t]] = start[t].headers
                   /\ file = start[t].file

\* a session whose fresh login wrote the file has logged in again, from
\* the file
C12_Witness ==
    \E t \in Tasks :
        /\ SecondLogin(t) /\ start[t].prev.result = "returned"
        /\ pc[t] = "idle" /\ result[t] = "returned"
        /\ trace[t] = <<EvExists, EvRead>>
        /\ saved.set /\ saved.by = t
        /\ "Authorization" \in DOMAIN headers[owner[t]]

\* ------------------------------------------------------------------------
\* The Sync facade mirrors the Async facade
\* ------------------------------------------------------------------------
\* what a session holds and what its task has done and got
View(s, t) ==
    [headers |-> headers[s], chat_headers |-> chat_headers[s],
     chat_history |-> chat_history[s], credentials |-> credentials[s],
     session_id |-> session_id[s], auth_token |-> auth_token[s],
     cookie |-> cookie[s], pc |-> pc[t], result |-> result[t],
     trace |-> trace[t], request |-> request[t], response |-> response[t],
     read |-> seen[t].text, transport |-> transport[t], gen |-> gen[t]]

\* C13: constructed alike, started on the same credential file and given
\* the same calls and the same answers, the two facades have after every
\* step made the same accesses and requests in the same order, stand at the
\* same point with the same outcome, and hold equal headers, chat headers,
\* history and credentials; and the Sync step leaves the file as the Async
\* step did.
C13_SyncMirrorsAsync ==
    /\ [](InStep /\ SameInputs => View(1, 1) = View(2, 2))
    /\ [][(~InStep /\ InStep' /\ SameInputs') => file' = file]_vars

\* ------------------------------------------------------------------------
\* Streamed sends
\* ------------------------------------------------------------------------
\* the place of the first termination marker, or one past the end
FirstSentinel(fs) ==
    IF \E i \in 1..Len(fs) : fs[i] = SentinelFrame
    THEN CHOOSE i \in 1..Len(fs) :
            /\ fs[i] = SentinelFrame
            /\ \A j \in 1..(i - 1) : fs[j] # SentinelFrame
    ELSE Len(fs) + 1
IsValidFrame(f) == json_loads(f).ok
\* the parsed payloads of the valid frames before the first marker
Expected(fs) ==
    LET valid == SelectSeq(SubSeq(fs, 1, FirstSentinel(fs) - 1), IsValidFrame)
    IN [i \in 1..Len(valid) |-> json_loads(valid[i]).value.d]

\* C14: the lazy sequence a streamed send returned yields, in order, the
\* parsed payloads of the valid JSON frames before the first termination
\* marker: what it has yielded so far is a prefix of them, and once it has
\* ended it has yielded all of them.
C14_DecoderYieldsValidFrames ==
    \A t \in Tasks :
        /\ IsPrefix(gen[t].out, Expected(frames))
        /\ gen[t].state \in {"done", "failed"}
              => gen[t].out = Expected(frames)

\* C15: the response transport a send_message call opened is open only
\* while the call is in flight; once the call has returned or raised (a
\* plain reply, a reply without content, a failed status check, a streamed
\* send, a cancellation at any await) it is closed.
C15_TransportClosedOnExit ==
    \A t \in Tasks :
        /\ transport[t] = "open" => pc[t] \in SendAwaits
        /\ (op[t].name = "send_message" /\ pc[t] = "idle"
               /\ request[t].method = "POST")
              => transport[t] = "closed"

\* an Async plain send has been cancelled at the exit of its with block,
\* both turns appended, and a Sync streamed send has returned, both with
\* the transport closed
C15_Witness ==
    /\ pc[1] = "idle" /\ result[1] = "CancelledError"
    /\ Len(chat_history[1]) = 2
    /\ transport[1] = "closed"
    /\ pc[2] = "idle" /\ op[2].stream /\ result[2] = "returned"
    /\ gen[2].state = "created" /\ transport[2] = "closed"

\* C19: the caller never draws an element from the lazy sequence of a
\* streamed send after send_message has closed the transport the sequence
\* reads from.
C19_NoPullAfterClose ==
    \A t \in Tasks : ~gen[t].late

\* ------------------------------------------------------------------------
\* The header sets
\* ------------------------------------------------------------------------
ChatOnly == {"Accept", "Content-Type"}
Has(h, k, v) == k \in DOMAIN h /\ h[k] = v

\* the headers of session s are, but for Cookie and Authorization, those of
\* the task's call time, and Authorization is too unless `auth` is set
SinceStart(t, auth, ck) ==
    LET h == headers[owner[t]]
        h0 == start[t].headers
    IN /\ DOMAIN h = DOMAIN h0 \cup {"Cookie"} \cup
                        (IF auth = None THEN {} ELSE {"Authorization"})
       /\ \A k \in DOMAIN h0 \ {"Cookie", "Authorization"} : h[k] = h0[k]
       /\ h["Cookie"] = ck
       /\ IF auth = None
          THEN \A k \in DOMAIN h0 \cap {"Authorization"} : h[k] = h0[k]
          ELSE h["Authorization"] = auth

\* where a fresh login stands, by the headers it has set so far
FreshOrder(t) ==
    LET s == owner[t]
    IN /\ pc[t] = "login_auth_token"
            => SinceStart(t, None, SessionCookie(session_id[s]))
       /\ pc[t] = "login_cookies"
            => SinceStart(t, Bearer(auth_token[s]),
                          SessionCookie(session_id[s]))
       /\ pc[t] \in {"login_open", "login_write"}
            => SinceStart(t, Bearer(auth_token[s]), cookie[s])

\* C16: no step removes a header name from self.headers or from the chat
\* headers; a fresh login sets Cookie to the session-id cookie, then
\* Authorization, then Cookie to the final cookie, and nothing else; Accept
\* and Content-Type are in the chat headers, once built, and never in
\* self.headers nor in a get_models request.
C16_HeadersAdditive ==
    /\ [](\A t \in Tasks :
             /\ FreshOrder(t)
             /\ DOMAIN headers[owner[t]] \cap ChatOnly = {}
             /\ chat_headers[owner[t]] # EmptyDict
                   => ChatOnly \subseteq DOMAIN chat_headers[owner[t]]
             /\ op[t].name = "get_models"
                   => DOMAIN request[t].headers \cap ChatOnly = {})
    /\ [][\A s \in Sessions :
             /\ DOMAIN headers[s] \subseteq DOMAIN headers'[s]
             /\ DOMAIN chat_headers[s] \subseteq DOMAIN chat_headers'[s]]_vars

\* a session whose fresh login has set all three headers in turn has then
\* sent a message with chat headers built from them
C16_Witness ==
    \E t \in Tasks :
        /\ op[t].name = "send_message"
        /\ start[t].prev = [name |-> "login", result |-> "returned"]
        /\ session_id[owner[t]] # None
        /\ Has(headers[owner[t]], "Cookie", cookie[owner[t]])
        /\ Has(headers[owner[t]], "Authorization",
               Bearer(auth_token[owner[t]]))
        /\ Has(chat_headers[owner[t]], "Accept", "text/event-stream")

\* ------------------------------------------------------------------------
\* Two sessions saving to one file
\* ------------------------------------------------------------------------
\* task t has completed a fresh login that wrote the file
FreshDone(t) ==
    /\ op[t].name = "login" /\ pc[t] = "idle" /\ result[t] = "returned"
    /\ Names(FileWrites(trace[t])) = <<"open_w", "write">>

\* C17: when two sessions sharing the file have both completed a fresh
\* login, the file holds exactly the record of the session that wrote
\* last, and the headers of each session hold its own auth token and cookie.
C17_LastWriterWins ==
    \A t, u \in Tasks :
        (owner[t] # owner[u] /\ FreshDone(t) /\ FreshDone(u))
        => /\ saved.by \in {t, u}
           /\ file = FileOf(DumpCredentials(credentials[owner[saved.by]]))
           /\ Has(headers[owner[t]], "Authorization",
                  Bearer(auth_token[owner[t]]))
           /\ Has(headers[owner[t]], "Cookie", cookie[owner[t]])

\* ------------------------------------------------------------------------
\* The headers a send carries
\* ------------------------------------------------------------------------
AuthNames == {"Authorization", "Cookie"}

\* C18: a send_message made right after a login that returned sends each of
\* Authorization and Cookie exactly as self.headers holds it at the call:
\* the same value if it is there, absent if it is not, whatever calls came
\* before that login.
C18_SendCarriesCurrentAuth ==
    \A t \in Tasks :
        (op[t].name = "send_message" /\ request[t].method = "POST"
            /\ start[t].prev = [name |-> "login", result |-> "returned"])
        => \A k \in AuthNames :
              IF k \in DOMAIN start[t].headers
              THEN Has(request[t].headers, k, start[t].headers[k])
              ELSE k \notin DOMAIN request[t].headers

\* ------------------------------------------------------------------------
\* Concurrent sends on one session
\* ------------------------------------------------------------------------
\* the history is a sequence of pairs: a user turn, then an assistant turn
Paired(h) ==
    /\ Len(h) % 2 = 0
    /\ \A i \in 1..Len(h) :
          h[i].role = IF i % 2 = 1 THEN "user" ELSE "assistant"

\* both coroutines have called send_message without streaming
BothSend ==
    /\ op[1].name = "send_message" /\ ~op[1].stream
    /\ op[3].name = "send_message" /\ ~op[3].stream

\* C20: with two coroutines sending plain messages on one Async session,
\* the history is at every moment a sequence of (user, assistant) pairs,
\* and every step that changes it appends the message of one call
\* followed by the reply to that same call.
C20_PairsNeverSplit ==
    /\ [](BothSend => Paired(chat_history[1]))
    /\ [][(BothSend /\ chat_history'[1] # chat_history[1])
            => \E t \in {1, 3} :
                  /\ pc[t] = "send_json" /\ pc'[t] = "send_close"
                  /\ HasContent(response'[t])
                  /\ chat_history'[1] = chat_history[1] \o
                        <<Turn("user", op[t].message),
                          Turn("assistant", ContentOf(response'[t]))>>]_vars

====
